---- MODULE Spec2Model ----
(***************************************************************************)
(* Model of main.py: the dataset loader load_dataset with its process-wide *)
(* cache PORTES_DF, and the query tool consultar_portes (text filters,     *)
(* year/month filters, grand total, grouping, ranking).                    *)
(*                                                                         *)
(* Text is a sequence of one-character strings, so that str.upper,         *)
(* str.strip and Series.str.contains are computed character by character.  *)
(***************************************************************************)
EXTENDS Integers, Sequences, FiniteSets, TLC

VARIABLES disco, PORTES_DF, carga, chamada, memo

vars == <<disco, PORTES_DF, carga, chamada, memo>>

---------------------------------------------------------------------------
(* Bounds of the model.                                                    *)

\* Largest number of data rows of a general CSV file.
MaxLinhas == 2

\* Number of rows (one group each) of the files with many groups.
LinhasLargas == 6

---------------------------------------------------------------------------
(* Characters and strings.                                                 *)

Minusculas ==
    <<"a", "b", "c", "d", "e", "f", "g", "h", "i", "j", "k", "l", "m",
      "n", "o", "p", "q", "r", "s", "t", "u", "v", "w", "x", "y", "z">>

Maiusculas ==
    <<"A", "B", "C", "D", "E", "F", "G", "H", "I", "J", "K", "L", "M",
      "N", "O", "P", "Q", "R", "S", "T", "U", "V", "W", "X", "Y", "Z">>

\* The characters of the model in code-point order.
Ascii ==
    <<" ", "(", ".", "0", "1", "2", "3", "4", "5", "6", "7", "8", "9",
      "A", "B", "C", "D", "E", "F", "G", "H", "I", "J", "K", "L", "M",
      "N", "O", "P", "Q", "R", "S", "T", "U", "V", "W", "X", "Y", "Z", "_",
      "a", "b", "c", "d", "e", "f", "g", "h", "i", "j", "k", "l", "m",
      "n", "o", "p", "q", "r", "s", "t", "u", "v", "w", "x", "y", "z">>

Caracteres == {Ascii[i] : i \in 1..Len(Ascii)}

\* ord(c), up to the order it gives.
CodDe == [c \in Caracteres |-> CHOOSE i \in 1..Len(Ascii) : Ascii[i] = c]

Cod(c) == CodDe[c]

\* str.upper of each character of the model.
MaiusculaDe ==
    [c \in Caracteres |->
        IF \E i \in 1..Len(Minusculas) : Minusculas[i] = c
        THEN Maiusculas[CHOOSE i \in 1..Len(Minusculas) : Minusculas[i] = c]
        ELSE c]

MaiusculaChar(c) == MaiusculaDe[c]

\* str.upper
Upper(s) == [i \in 1..Len(s) |-> MaiusculaChar(s[i])]

\* str.strip (blanks only: the model has no other white space)
Strip(s) ==
    LET naoBranco == {i \in 1..Len(s) : s[i] # " "}
    IN  IF naoBranco = {} THEN <<>>
        ELSE LET a == CHOOSE i \in naoBranco : \A j \in naoBranco : i <= j
                 b == CHOOSE i \in naoBranco : \A j \in naoBranco : j <= i
             IN  SubSeq(s, a, b)

\* Python's order of two strings (by code point, then by length).
StrMenor(a, b) ==
    \/ /\ Len(a) < Len(b)
       /\ \A i \in 1..Len(a) : a[i] = b[i]
    \/ \E i \in 1..Len(a) :
          /\ i <= Len(b)
          /\ \A j \in 1..(i - 1) : a[j] = b[j]
          /\ Cod(a[i]) < Cod(b[i])

Digitos == <<"0", "1", "2", "3", "4", "5", "6", "7", "8", "9">>

EhDigito(c) == \E i \in 1..10 : Digitos[i] = c

ValorDigito(c) == (CHOOSE i \in 1..10 : Digitos[i] = c) - 1

RECURSIVE ParseNat(_)
ParseNat(s) ==
    IF s = <<>> THEN 0
    ELSE 10 * ParseNat(SubSeq(s, 1, Len(s) - 1)) + ValorDigito(s[Len(s)])

RECURSIVE StrNat(_)
\* str() of a natural number
StrNat(n) ==
    IF n < 10 THEN <<Digitos[n + 1]>>
    ELSE Append(StrNat(n \div 10), Digitos[(n % 10) + 1])

---------------------------------------------------------------------------
(* Cells of a table: a string, a number or a missing value (NaN).          *)

Str(s) == [t |-> "str", s |-> s, n |-> 0]

Num(n) == [t |-> "num", s |-> <<>>, n |-> n]

NaN == [t |-> "nan", s |-> <<>>, n |-> 0]

\* Optional arguments: None, or a value.
None == [some |-> FALSE, s |-> <<>>, n |-> 0]

Texto(s) == [some |-> TRUE, s |-> s, n |-> 0]

Inteiro(n) == [some |-> TRUE, s |-> <<>>, n |-> n]

\* Python truthiness of an Optional[str]: None and "" are false.
Verdadeiro(o) == o.some /\ o.s # <<>>

Col_UF == <<"U", "F">>
Col_MUNICIPIO == <<"M", "U", "N", "I", "C", "I", "P", "I", "O">>
Col_SEXO == <<"S", "E", "X", "O">>
Col_ESPECIE_ARMA == <<"E", "S", "P", "E", "C", "I", "E", "_", "A", "R", "M", "A">>
Col_MARCA_ARMA == <<"M", "A", "R", "C", "A", "_", "A", "R", "M", "A">>
Col_CALIBRE_ARMA == <<"C", "A", "L", "I", "B", "R", "E", "_", "A", "R", "M", "A">>
Col_STATUS == <<"S", "T", "A", "T", "U", "S">>
Col_TIPO == <<"T", "I", "P", "O">>
Col_ABRANGENCIA == <<"A", "B", "R", "A", "N", "G", "E", "N", "C", "I", "A">>
Col_ANO_EMISSAO == <<"A", "N", "O", "_", "E", "M", "I", "S", "S", "A", "O">>
Col_MES_MISSAO == <<"M", "E", "S", "_", "M", "I", "S", "S", "A", "O">>
Col_TOTAL == <<"T", "O", "T", "A", "L">>

---------------------------------------------------------------------------
(* Data frames: [cols: sequence of column names, rows: sequence of rows],  *)
(* a row being the sequence of its cells, one per column.                  *)

TemColuna(cols, nome) == \E i \in 1..Len(cols) : cols[i] = nome

Indice(cols, nome) == CHOOSE i \in 1..Len(cols) : cols[i] = nome

\* frame[mask]: the rows whose index satisfies the mask, in order.
RECURSIVE Selecionar(_, _)
Selecionar(rows, mask) ==
    IF rows = <<>> THEN <<>>
    ELSE LET resto == Selecionar(SubSeq(rows, 1, Len(rows) - 1), mask)
         IN  IF mask[Len(rows)] THEN Append(resto, rows[Len(rows)]) ELSE resto

---------------------------------------------------------------------------
(* load_dataset: the loader and its cache.                                 *)

DATA_PATH == "PORTES_2025.csv"

OUTRO_PATH == "outro.csv"

Caminhos == {DATA_PATH, OUTRO_PATH}

\* PORTES_DF = None
SemDF == [carregado |-> FALSE, cols |-> <<>>, rows |-> <<>>]

\* pd.to_numeric(errors="coerce") of one cell, then fillna(0)
to_numeric_fillna(c) ==
    IF c.t = "num" THEN c
    ELSE IF c.t = "str" /\ c.s # <<>> /\ \A i \in 1..Len(c.s) : EhDigito(c.s[i])
         THEN Num(ParseNat(c.s))
         ELSE Num(0)

\* df.columns = [c.strip().upper() for c in df.columns]
NormalizarColunas(cols) == [i \in 1..Len(cols) |-> Upper(Strip(cols[i]))]

\* df["TOTAL"] = pd.to_numeric(df["TOTAL"], errors="coerce").fillna(0)
CoagirTotal(cols, rows) ==
    IF TemColuna(cols, Col_TOTAL)
    THEN LET k == Indice(cols, Col_TOTAL)
         IN  [r \in 1..Len(rows) |->
                 [rows[r] EXCEPT ![k] = to_numeric_fillna(rows[r][k])]]
    ELSE rows

\* The data frame load_dataset builds from the file it read.
Tratar(arq) ==
    LET cols == NormalizarColunas(arq.cols)
    IN  [carregado |-> TRUE, cols |-> cols, rows |-> CoagirTotal(cols, arq.rows)]

\* load_dataset without the "if PORTES_DF is None" test: every call reads.
load_dataset_sem_cache(df, d, path) ==
    IF d[path].existe
    THEN [leu |-> TRUE, exc |-> "", df |-> Tratar(d[path])]
    ELSE [leu |-> TRUE, exc |-> "FileNotFoundError", df |-> df]

\* load_dataset(path) called with the cache holding df and the disk d:
\* leu: pd.read_csv was called; exc: the exception raised ("" for none);
\* df: the value of PORTES_DF afterwards, which is also what is returned.
load_dataset(df, d, path) ==
    IF ~df.carregado
    THEN IF d[path].existe
         THEN [leu |-> TRUE, exc |-> "", df |-> Tratar(d[path])]
         ELSE [leu |-> TRUE, exc |-> "FileNotFoundError", df |-> df]
    ELSE [leu |-> FALSE, exc |-> "", df |-> df]

---------------------------------------------------------------------------
(* consultar_portes: the filters.                                          *)

\* frame[coluna].astype(str) of one cell: a missing value becomes the
\* string "nan", so that na=False has nothing left to decide.
astype_str(c) ==
    IF c.t = "str" THEN c.s
    ELSE IF c.t = "nan" THEN <<"n", "a", "n">>
    ELSE StrNat(c.n)

\* re.compile fails on an unterminated group; the model's characters have
\* no ")" to close one, and no other character that makes a pattern invalid.
RegexInvalida(pat) == \E i \in 1..Len(pat) : pat[i] = "("

\* re.search(pat, s): "." matches any character, every other character of
\* the model matches itself.
RegexSearch(pat, s) ==
    \E i \in 0..(Len(s) - Len(pat)) :
        \A j \in 1..Len(pat) : pat[j] = "." \/ pat[j] = s[i + j]

\* serie.str.contains(pat, na=False) of one element
str_contains(s, pat) == RegexSearch(pat, s)

\* filtrar_coluna_texto without the "if coluna not in frame.columns" test:
\* frame[coluna] raises KeyError for a column the frame lacks.
filtrar_coluna_texto_sem_teste(cols, rows, coluna, valor) ==
    LET nome == Upper(coluna)
    IN  IF ~TemColuna(cols, nome) THEN [exc |-> "KeyError", rows |-> <<>>]
        ELSE IF RegexInvalida(Upper(valor)) THEN [exc |-> "re.error", rows |-> <<>>]
        ELSE LET k == Indice(cols, nome)
                 serie == [r \in 1..Len(rows) |-> Upper(astype_str(rows[r][k]))]
                 mask == [r \in 1..Len(rows) |-> str_contains(serie[r], Upper(valor))]
             IN  [exc |-> "", rows |-> Selecionar(rows, mask)]

\* filtrar_coluna_texto(frame, coluna, valor), the frame given by its
\* columns and rows: the exception raised ("" for none) and the rows kept.
filtrar_coluna_texto(cols, rows, coluna, valor) ==
    LET nome == Upper(coluna)
    IN  IF ~TemColuna(cols, nome) THEN [exc |-> "", rows |-> rows]
        ELSE IF RegexInvalida(Upper(valor)) THEN [exc |-> "re.error", rows |-> <<>>]
        ELSE LET k == Indice(cols, nome)
                 serie == [r \in 1..Len(rows) |-> Upper(astype_str(rows[r][k]))]
                 mask == [r \in 1..Len(rows) |-> str_contains(serie[r], Upper(valor))]
             IN  [exc |-> "", rows |-> Selecionar(rows, mask)]

\* The textual criteria in the order the code applies them: the argument
\* and the column name the code passes for it.
CriteriosTexto ==
    << <<"uf", Col_UF>>, <<"municipio", Col_MUNICIPIO>>, <<"sexo", Col_SEXO>>,
       <<"especie_arma", Col_ESPECIE_ARMA>>, <<"marca_arma", Col_MARCA_ARMA>>,
       <<"calibre_arma", Col_CALIBRE_ARMA>>, <<"status", Col_STATUS>>,
       <<"tipo", Col_TIPO>>, <<"abrangencia", Col_ABRANGENCIA>> >>

\* if <arg>: filtro = filtrar_coluna_texto(filtro, <COLUNA>, <arg>)
PassoTexto(cols, st, crit, args) ==
    IF st.exc # "" \/ ~Verdadeiro(args[crit[1]]) THEN st
    ELSE filtrar_coluna_texto(cols, st.rows, crit[2], args[crit[1]].s)

RECURSIVE FiltrosTexto(_, _, _, _)
\* The first k textual criteria applied to the rows.
FiltrosTexto(cols, rows, args, k) ==
    IF k = 0 THEN [exc |-> "", rows |-> rows]
    ELSE PassoTexto(cols, FiltrosTexto(cols, rows, args, k - 1),
                    CriteriosTexto[k], args)

\* if <arg> is not None and <COLUNA> in filtro.columns:
\*     filtro = filtro[filtro[<COLUNA>] == int(<arg>)]
FiltroInteiro(cols, rows, nome, arg) ==
    IF arg.some /\ TemColuna(cols, nome)
    THEN LET k == Indice(cols, nome)
         IN  Selecionar(rows, [r \in 1..Len(rows) |->
                 rows[r][k].t = "num" /\ rows[r][k].n = arg.n])
    ELSE rows

\* Lines 82-122: the working set filtro after every filter.
Filtrar(df, args) ==
    LET txt == FiltrosTexto(df.cols, df.rows, args, Len(CriteriosTexto))
    IN  IF txt.exc # "" THEN txt
        ELSE [exc |-> "",
              rows |-> FiltroInteiro(df.cols,
                          FiltroInteiro(df.cols, txt.rows, Col_ANO_EMISSAO,
                                        args.ano_emissao),
                          Col_MES_MISSAO, args.mes_missao)]

---------------------------------------------------------------------------
(* consultar_portes: the result.  The returned text is kept as the record  *)
(* of the values its f-string prints: which of the four texts it is, and   *)
(* the numbers, names and ranking lines in it.                             *)

SemResultado ==
    [kind |-> "", exc |-> "", total_portes |-> 0, registros |-> 0,
     agrupar_por |-> <<>>, colunas |-> <<>>, col |-> <<>>, top |-> 0,
     linhas |-> <<>>]

\* An exception leaves consultar_portes instead of a text.
Levanta(e) == [SemResultado EXCEPT !.kind = "raise", !.exc = e]

\* "Nenhum registro encontrado com esses filtros."
NenhumRegistro == [SemResultado EXCEPT !.kind = "nenhum_registro"]

\* "Foram encontrados {total_portes} portes ... (Registros: {len(filtro)})"
Resumo(total, n) ==
    [SemResultado EXCEPT !.kind = "resumo", !.total_portes = total,
                         !.registros = n]

\* The text naming the upper-cased col instead of agrupar_por as given.
ColunaInexistente_maiuscula(pedido, cols) ==
    [SemResultado EXCEPT !.kind = "coluna_inexistente",
                         !.agrupar_por = Upper(pedido), !.colunas = cols]

\* "A coluna '{agrupar_por}' não existe ... Colunas disponíveis: {...}"
ColunaInexistente(pedido, cols) ==
    [SemResultado EXCEPT !.kind = "coluna_inexistente", !.agrupar_por = pedido,
                         !.colunas = cols]

\* "Foram encontrados ... Ranking por {col} (top {len(tabela)}): {ranking}"
Ranking(total, c, ls) ==
    [SemResultado EXCEPT !.kind = "ranking", !.total_portes = total, !.col = c,
                         !.top = Len(ls), !.linhas = ls]

RECURSIVE Soma(_)
Soma(ns) == IF ns = <<>> THEN 0 ELSE ns[1] + Soma(Tail(ns))

\* filtro["TOTAL"] as a sequence of numbers
ColunaTotal(cols, rows) ==
    [r \in 1..Len(rows) |-> rows[r][Indice(cols, Col_TOTAL)].n]

\* Lines 127-130: int(filtro["TOTAL"].sum()), or len(filtro).
total_portes(cols, rows) ==
    IF TemColuna(cols, Col_TOTAL) THEN Soma(ColunaTotal(cols, rows))
    ELSE Len(rows)

\* The order groupby sorts its keys in (one column holds strings or numbers).
ChaveMenor(a, b) ==
    IF a.t = "num" /\ b.t = "num" THEN a.n < b.n ELSE StrMenor(a.s, b.s)

\* The group keys of filtro.groupby(col): the distinct values of the
\* column, missing values dropped (groupby's dropna=True), in sorted order.
Chaves(rows, k) ==
    LET S == {rows[r][k] : r \in {x \in 1..Len(rows) : rows[x][k].t # "nan"}}
        antes == [c \in S |-> Cardinality({d \in S : ChaveMenor(d, c)})]
    IN  [p \in 1..Cardinality(S) |-> CHOOSE c \in S : antes[c] = p - 1]

\* groupby(col)["TOTAL"].sum() / groupby(col).size() of one group
Agregado(cols, rows, k, chave) ==
    LET grupo == Selecionar(rows, [r \in 1..Len(rows) |-> rows[r][k] = chave])
    IN  total_portes(cols, grupo)

\* .reset_index(): one row (chave, valor) per group
groupby(cols, rows, k) ==
    LET ks == Chaves(rows, k)
    IN  [p \in 1..Len(ks) |->
            [chave |-> ks[p], valor |-> Agregado(cols, rows, k, ks[p])]]

\* .sort_values("TOTAL", ascending=False): non-increasing valor; equal
\* values keep the order they had (what the sort does on the few rows of
\* the model, where numpy's quicksort is an insertion sort).
sort_values(tab) ==
    LET pos == [i \in 1..Len(tab) |->
                   Cardinality({j \in 1..Len(tab) : tab[j].valor > tab[i].valor})
                   + Cardinality({j \in 1..(i - 1) : tab[j].valor = tab[i].valor})
                   + 1]
    IN  [p \in 1..Len(tab) |-> tab[CHOOSE i \in 1..Len(tab) : pos[i] = p]]

\* A head that truncates only for a positive n.
head_so_positivo(tab, n) ==
    IF n > 0 THEN SubSeq(tab, 1, IF n < Len(tab) THEN n ELSE Len(tab)) ELSE tab

\* tabela.head(n): the first n rows, or all but the last -n when n < 0.
head(tab, n) ==
    IF n >= 0 THEN SubSeq(tab, 1, IF n < Len(tab) THEN n ELSE Len(tab))
    ELSE SubSeq(tab, 1, IF Len(tab) + n > 0 THEN Len(tab) + n ELSE 0)

\* if top_n is not None: tabela = tabela.head(int(top_n))
Truncar(tab, top_n) == IF top_n.some THEN head(tab, top_n.n) ELSE tab

\* str(row[col])
StrChave(c) == astype_str(c)

\* Lines 164-168: the lines "- {chave}: {valor} portes"
Linhas(tab) ==
    [p \in 1..Len(tab) |-> [chave |-> StrChave(tab[p].chave), valor |-> tab[p].valor]]

\* Lines 146-159: grouping by TOTAL while TOTAL is summed makes reset_index
\* insert a column named TOTAL beside the sums, also named TOTAL.
ResetIndexFalha(cols, c) == TemColuna(cols, Col_TOTAL) /\ c = Col_TOTAL

\* Lines 127-176: the result built from a working set that is not empty.
ResultadoNaoVazio(cols, rows, args) ==
    LET total == total_portes(cols, rows)
    IN  IF ~Verdadeiro(args.agrupar_por) THEN Resumo(total, Len(rows))
        ELSE LET c == Upper(args.agrupar_por.s)
             IN  IF ~TemColuna(cols, c)
                 THEN ColunaInexistente(args.agrupar_por.s, cols)
                 ELSE IF ResetIndexFalha(cols, c) THEN Levanta("ValueError")
                 ELSE Ranking(total, c,
                          Linhas(Truncar(sort_values(
                              groupby(cols, rows, Indice(cols, c))),
                              args.top_n)))

\* filtro.empty: no rows, or no columns.
empty(cols, rows) == rows = <<>> \/ cols = <<>>

\* The unknown grouping column reported before the empty working set.
Resultado_coluna_antes(cols, rows, args) ==
    IF Verdadeiro(args.agrupar_por) /\ ~TemColuna(cols, Upper(args.agrupar_por.s))
    THEN ColunaInexistente(args.agrupar_por.s, cols)
    ELSE IF empty(cols, rows) THEN NenhumRegistro
    ELSE ResultadoNaoVazio(cols, rows, args)

\* Lines 124-176: the result built from the working set.
Resultado(cols, rows, args) ==
    IF empty(cols, rows) THEN NenhumRegistro
    ELSE ResultadoNaoVazio(cols, rows, args)

\* consultar_portes filtering the cached frame itself, not a copy.
consultar_portes_no_lugar(df, d, args) ==
    LET ld == load_dataset(df, d, DATA_PATH)
    IN  IF ld.exc # ""
        THEN [carga |-> ld, filtrou |-> FALSE, filtro |-> <<>>, res |-> Levanta(ld.exc)]
        ELSE LET f == Filtrar(ld.df, args)
             IN  IF f.exc # ""
                 THEN [carga |-> ld, filtrou |-> FALSE, filtro |-> <<>>,
                       res |-> Levanta(f.exc)]
                 ELSE [carga |-> [ld EXCEPT !.df.rows = f.rows], filtrou |-> TRUE,
                       filtro |-> f.rows,
                       res |-> Resultado(ld.df.cols, f.rows, args)]

\* consultar_portes(**args) called with the cache holding df and the disk
\* d: what its load_dataset() did, the working set filtro it reached (none
\* when an exception came first) and the text returned or exception raised.
consultar_portes(df, d, args) ==
    LET ld == load_dataset(df, d, DATA_PATH)
    IN  IF ld.exc # ""
        THEN [carga |-> ld, filtrou |-> FALSE, filtro |-> <<>>, res |-> Levanta(ld.exc)]
        ELSE LET f == Filtrar(ld.df, args)
             IN  IF f.exc # ""
                 THEN [carga |-> ld, filtrou |-> FALSE, filtro |-> <<>>,
                       res |-> Levanta(f.exc)]
                 ELSE [carga |-> ld, filtrou |-> TRUE, filtro |-> f.rows,
                       res |-> Resultado(ld.df.cols, f.rows, args)]

---------------------------------------------------------------------------
(* The CSV files of the model, as pd.read_csv hands them over: the header  *)
(* names as written, and cells that are strings, numbers or missing.       *)

Ausente == [existe |-> FALSE, cols |-> <<>>, rows |-> <<>>]

Arquivo(cols, rows) == [existe |-> TRUE, cols |-> cols, rows |-> rows]

\* The sequences of at most n elements of S.
SeqAte(S, n) == UNION {[1..k -> S] : k \in 0..n}

\* Files with a state and a count: header " uf;Total".
LinhasUfTotal ==
    {<<Str(<<"B", "A">>), Num(1)>>, <<Str(<<"B", ".">>), Num(2)>>,
     <<NaN, Num(1)>>, <<Str(<<"B", "A">>), Str(<<"x">>)>>}

ArquivosUfTotal ==
    {Arquivo(<<<<" ", "u", "f">>, <<"T", "o", "t", "a", "l">>>>, rows) :
        rows \in SeqAte(LinhasUfTotal, MaxLinhas)}

\* Files without a TOTAL column: header "UF".
LinhasUf == {<<u>> : u \in {Str(<<"b", "a">>), Str(<<"B", ".">>), NaN}}

ArquivosUf == {Arquivo(<<Col_UF>>, rows) : rows \in SeqAte(LinhasUf, MaxLinhas)}

\* Files with a caliber and a year, the counts read as text: header
\* "calibre_arma;ANO_EMISSAO;TOTAL".
LinhasCalibreAno ==
    {<<Str(<<".", "A">>), Num(2025), Str(<<"2">>)>>,
     <<Str(<<"B", "A">>), Num(2025), Str(<<"2">>)>>,
     <<Str(<<"B", "A">>), Num(2024), Str(<<"2">>)>>}

ArquivosCalibreAno ==
    {Arquivo(<<<<"c", "a", "l", "i", "b", "r", "e", "_", "a", "r", "m", "a">>,
               Col_ANO_EMISSAO, Col_TOTAL>>, rows) :
        rows \in SeqAte(LinhasCalibreAno, MaxLinhas)}

\* Files with many groups: one row per state with a count of 1, but for at
\* most one state, whose count is 2.
ChavesLargas ==
    << <<"A", "C">>, <<"A", "L">>, <<"A", "M">>, <<"A", "P">>, <<"B", "A">>,
       <<"C", "E">>, <<"D", "F">>, <<"E", "S">> >>

ArquivosLargos ==
    {Arquivo(<<Col_UF, Col_TOTAL>>,
             [i \in 1..LinhasLargas |-> <<Str(ChavesLargas[i]), Num(t[i])>>]) :
        t \in {[i \in 1..LinhasLargas |-> IF i = d THEN 2 ELSE 1] :
                    d \in 0..LinhasLargas}}

Arquivos == ArquivosUfTotal \cup ArquivosUf \cup ArquivosCalibreAno \cup ArquivosLargos

---------------------------------------------------------------------------
(* The queries of the model.                                               *)

Campos ==
    {"uf", "municipio", "sexo", "especie_arma", "marca_arma", "calibre_arma",
     "status", "tipo", "abrangencia", "ano_emissao", "mes_missao",
     "agrupar_por", "top_n"}

\* The default of top_n (line 52).
TopNPadrao == 5

\* consultar_portes() with every argument at its default.
ArgsPadrao == [c \in Campos |-> IF c = "top_n" THEN Inteiro(TopNPadrao) ELSE None]

\* The textual criterion on a column some files have: none, or the
\* argument and its value.
CriteriosTexto1 ==
    {<<>>,
     <<"uf", Texto(<<"a">>)>>, <<"uf", Texto(<<"b", ".">>)>>, <<"uf", Texto(<<"(">>)>>,
     <<"calibre_arma", Texto(<<".", "a">>)>>}

\* The textual criterion on a column no file has.
CriteriosTexto2 == {<<>>, <<"municipio", Texto(<<"(">>)>>}

\* The year or month criterion (no file has a month column).
CriteriosInteiros ==
    {<<>>, <<"ano_emissao", Inteiro(2025)>>, <<"mes_missao", Inteiro(1)>>}

\* The grouping requests: agrupar_por and top_n.
Agrupamentos ==
    {<<None, Inteiro(TopNPadrao)>>,
     <<Texto(<<>>), Inteiro(TopNPadrao)>>,
     <<Texto(<<"x", "x">>), Inteiro(TopNPadrao)>>,
     <<Texto(<<"t", "o", "t", "a", "l">>), Inteiro(TopNPadrao)>>,
     <<Texto(<<"u", "f">>), Inteiro(TopNPadrao)>>,
     <<Texto(<<"u", "f">>), None>>,
     <<Texto(<<"u", "f">>), Inteiro(0)>>,
     <<Texto(<<"u", "f">>), Inteiro(-1)>>,
     <<Texto(<<"u", "f">>), Inteiro(1)>>,
     <<Texto(<<"C", "a", "l", "i", "b", "r", "e", "_", "a", "r", "m", "a">>),
       Inteiro(1)>>}

\* The arguments of a query with the criteria cs (each <<>>, or an
\* argument and its value) and the grouping request g.
ArgsDe(cs, g) ==
    [c \in Campos |->
        IF c = "agrupar_por" THEN g[1]
        ELSE IF c = "top_n" THEN g[2]
        ELSE IF \E x \in cs : x # <<>> /\ x[1] = c
             THEN (CHOOSE x \in cs : x # <<>> /\ x[1] = c)[2]
             ELSE None]

Consultas ==
    {ArgsDe({t1, t2, n}, g) :
        t1 \in CriteriosTexto1, t2 \in CriteriosTexto2, n \in CriteriosInteiros,
        g \in Agrupamentos}

---------------------------------------------------------------------------
(* The process: its state and its steps.                                   *)

\* No load_dataset call in the last step.
SemCarga == [chamou |-> FALSE, path |-> "", leu |-> FALSE, exc |-> "", retorno |-> SemDF]

\* What a load_dataset(path) call did: whether it read the file, the
\* exception it raised and the data frame it returned.
CargaDe(path, ld) ==
    [chamou |-> TRUE, path |-> path, leu |-> ld.leu, exc |-> ld.exc,
     retorno |-> IF ld.exc = "" THEN ld.df ELSE SemDF]

\* No consultar_portes call waiting for its caller.
SemChamada ==
    [ativa |-> FALSE, args |-> ArgsPadrao, filtrou |-> FALSE, filtro |-> <<>>,
     res |-> SemResultado]

\* A call remembered by an observer of the process (no call remembered):
\* its arguments and result, and whether a query with other arguments ran
\* since.
SemMemo == [tem |-> FALSE, args |-> ArgsPadrao, res |-> SemResultado, outras |-> FALSE]

InitCom(arqs) ==
    /\ disco \in {[p \in Caminhos |-> IF p = DATA_PATH THEN a ELSE Ausente] :
                    a \in arqs \cup {Ausente}}
    /\ PORTES_DF = SemDF
    /\ carga = SemCarga
    /\ chamada = SemChamada
    /\ memo = SemMemo

Init == InitCom(Arquivos)

\* A call of load_dataset(path): main's at start-up, or any other.
LoadDataset(path) ==
    /\ ~chamada.ativa /\ ~carga.chamou
    /\ LET ld == load_dataset(PORTES_DF, disco, path)
       IN  /\ PORTES_DF' = ld.df
           /\ carga' = CargaDe(path, ld)
    /\ UNCHANGED <<disco, chamada, memo>>

\* The agent calls the tool consultar_portes(**args).
ConsultarPortes(args) ==
    /\ ~chamada.ativa /\ ~carga.chamou
    /\ LET r == consultar_portes(PORTES_DF, disco, args)
       IN  /\ PORTES_DF' = r.carga.df
           /\ carga' = CargaDe(DATA_PATH, r.carga)
           /\ chamada' = [ativa |-> TRUE, args |-> args, filtrou |-> r.filtrou,
                          filtro |-> r.filtro, res |-> r.res]
    /\ memo' = IF memo.tem /\ args # memo.args THEN [memo EXCEPT !.outras = TRUE]
               ELSE memo
    /\ UNCHANGED disco

\* The caller takes what the call returned (or the exception it raised).
Retornar ==
    /\ chamada.ativa \/ carga.chamou
    /\ chamada' = SemChamada
    /\ carga' = SemCarga
    /\ UNCHANGED <<disco, PORTES_DF, memo>>

Next ==
    \/ \E path \in Caminhos : LoadDataset(path)
    \/ \E args \in Consultas : ConsultarPortes(args)
    \/ Retornar

Spec == Init /\ [][Next]_vars

---------------------------------------------------------------------------
(* The same process watched by an observer that remembers one call, to     *)
(* compare a later call of the same arguments with it.                     *)

\* The queries the observer's process makes.
ConsultasObservadas ==
    {ArgsDe({t1}, g) :
        t1 \in CriteriosTexto1 \ {<<"uf", Texto(<<"(">>)>>},
        g \in {<<None, Inteiro(TopNPadrao)>>, <<Texto(<<"u", "f">>), Inteiro(-1)>>}}

\* The observer remembers the call that has just ended.
Lembrar ==
    /\ chamada.ativa /\ ~memo.tem
    /\ memo' = [tem |-> TRUE, args |-> chamada.args, res |-> chamada.res,
                outras |-> FALSE]
    /\ UNCHANGED <<disco, PORTES_DF, carga, chamada>>

NextObservado ==
    \/ \E path \in Caminhos : LoadDataset(path)
    \/ \E args \in ConsultasObservadas : ConsultarPortes(args)
    \/ Lembrar
    \/ Retornar

SpecObservado == Init /\ [][NextObservado]_vars

---------------------------------------------------------------------------
(* What the claims speak of, stated without the code's own steps.          *)

\* v is a substring of s, every character of v taken literally.
ContemLiteral(s, v) ==
    \E i \in 0..(Len(s) - Len(v)) : \A j \in 1..Len(v) : s[i + j] = v[j]

\* The row satisfies every supplied textual criterion whose column exists.
SatisfazTexto(cols, row, args) ==
    \A k \in 1..Len(CriteriosTexto) :
        LET arg == args[CriteriosTexto[k][1]]
            nome == CriteriosTexto[k][2]
        IN  (Verdadeiro(arg) /\ TemColuna(cols, nome)) =>
                ContemLiteral(Upper(astype_str(row[Indice(cols, nome)])), Upper(arg.s))

\* The row satisfies the year and month criteria whose column exists.
SatisfazInteiros(cols, row, args) ==
    \A par \in {<<"ano_emissao", Col_ANO_EMISSAO>>, <<"mes_missao", Col_MES_MISSAO>>} :
        (args[par[1]].some /\ TemColuna(cols, par[2])) =>
            LET c == row[Indice(cols, par[2])]
            IN  c.t = "num" /\ c.n = args[par[1]].n

\* The rows of the loaded table that satisfy every supplied criterion.
LinhasQueSatisfazem(args) ==
    Selecionar(PORTES_DF.rows,
               [r \in 1..Len(PORTES_DF.rows) |->
                   /\ SatisfazTexto(PORTES_DF.cols, PORTES_DF.rows[r], args)
                   /\ SatisfazInteiros(PORTES_DF.cols, PORTES_DF.rows[r], args)])

\* The sum of TOTAL over the rows, or their number without a TOTAL column.
TotalDe(rows) ==
    IF TemColuna(PORTES_DF.cols, Col_TOTAL)
    THEN Soma([r \in 1..Len(rows) |-> rows[r][Indice(PORTES_DF.cols, Col_TOTAL)].n])
    ELSE Len(rows)

\* A call of consultar_portes has ended.
Chamou == chamada.ativa

\* The call filtered the table and reached line 124 with a working set.
Filtrou == chamada.ativa /\ chamada.filtrou

\* The call asked for a grouping column, whose upper-cased name is:
PediuGrupo == chamada.ativa /\ Verdadeiro(chamada.args.agrupar_por)

ColPedida == Upper(chamada.args.agrupar_por.s)

\* The distinct values present in the grouping column of the working set.
Grupos ==
    LET k == Indice(PORTES_DF.cols, ColPedida)
    IN  {chamada.filtro[r][k] :
            r \in {x \in 1..Len(chamada.filtro) : chamada.filtro[x][k].t # "nan"}}

\* The aggregated value of the group g.
ValorDoGrupo(g) ==
    LET k == Indice(PORTES_DF.cols, ColPedida)
    IN  TotalDe(Selecionar(chamada.filtro,
                           [r \in 1..Len(chamada.filtro) |-> chamada.filtro[r][k] = g]))

Min(a, b) == IF a < b THEN a ELSE b

Max(a, b) == IF a > b THEN a ELSE b

---------------------------------------------------------------------------
(* The claims.                                                             *)

\* C1: once a load has succeeded, every later load_dataset call, made by
\* itself or by consultar_portes and with whatever path, reads no file,
\* raises nothing, returns the cached table and leaves the cache as it is.
C1_LeituraUnica ==
    [][(PORTES_DF.carregado /\ carga'.chamou) =>
          /\ ~carga'.leu
          /\ carga'.exc = ""
          /\ carga'.retorno = PORTES_DF
          /\ PORTES_DF' = PORTES_DF]_vars

\* A load_dataset call with the other path answered from the cache.
C1_Witness ==
    /\ PORTES_DF.carregado /\ PORTES_DF.rows # <<>>
    /\ carga.chamou /\ carga.path = OUTRO_PATH
    /\ ~carga.leu /\ carga.retorno = PORTES_DF

\* C2: a call of consultar_portes with the arguments of a remembered
\* earlier call returns the text that call returned, whatever other queries
\* ran in between.
C2_Idempotente ==
    (Chamou /\ memo.tem /\ chamada.args = memo.args) => chamada.res = memo.res

\* A ranking returned again after a query with other arguments.
C2_Witness ==
    /\ Chamou /\ memo.tem /\ memo.outras /\ chamada.args = memo.args
    /\ chamada.res.kind = "ranking" /\ Len(chamada.res.linhas) >= 1
    /\ chamada.res = memo.res

\* C3: when the working set is empty after every filter, the result is the
\* fixed text "Nenhum registro encontrado com esses filtros.", whatever
\* agrupar_por and top_n are.
C3_NenhumRegistro ==
    (Filtrou /\ chamada.filtro = <<>>) => chamada.res.kind = "nenhum_registro"

\* Filters emptied a table that has rows, in a query asking for a ranking
\* by an unknown column.
C3_Witness ==
    /\ Filtrou /\ chamada.filtro = <<>> /\ PORTES_DF.rows # <<>>
    /\ PediuGrupo /\ ~TemColuna(PORTES_DF.cols, ColPedida)
    /\ chamada.res.kind = "nenhum_registro"

\* C4 as claimed: whenever a grouping column is requested that is not a
\* column of the table, for every combination of filters, the result is the
\* text naming the requested column and listing the available columns.
C4_Original ==
    (Filtrou /\ PediuGrupo /\ ~TemColuna(PORTES_DF.cols, ColPedida)) =>
        /\ chamada.res.kind = "coluna_inexistente"
        /\ chamada.res.agrupar_por = chamada.args.agrupar_por.s
        /\ chamada.res.colunas = PORTES_DF.cols

\* C4 amended: whenever a grouping column is requested that is not a column
\* of the table and the filters leave at least one row, the result is the
\* text naming the requested column as given and listing every column.
C4_ColunaInexistente ==
    (Filtrou /\ chamada.filtro # <<>> /\ PediuGrupo
        /\ ~TemColuna(PORTES_DF.cols, ColPedida)) =>
        /\ chamada.res.kind = "coluna_inexistente"
        /\ chamada.res.agrupar_por = chamada.args.agrupar_por.s
        /\ chamada.res.colunas = PORTES_DF.cols

\* An unknown grouping column reported after a filter dropped some rows.
C4_Witness ==
    /\ Filtrou /\ PediuGrupo /\ ~TemColuna(PORTES_DF.cols, ColPedida)
    /\ chamada.filtro # <<>> /\ Len(chamada.filtro) < Len(PORTES_DF.rows)
    /\ chamada.res.kind = "coluna_inexistente"
    /\ Len(chamada.res.colunas) = 2

C6_RankingPadrao ==
    (Filtrou /\ chamada.filtro # <<>> /\ PediuGrupo
        /\ TemColuna(PORTES_DF.cols, ColPedida)
        /\ chamada.args.top_n = Inteiro(TopNPadrao)) =>
        LET L == chamada.res.linhas
        IN  /\ chamada.res.kind = "ranking"
            /\ Len(L) = Min(TopNPadrao, Cardinality(Grupos))
            /\ \A i, j \in 1..Len(L) : L[i].chave = L[j].chave => i = j
            /\ \A i \in 1..Len(L) :
                  \E g \in Grupos : /\ L[i].chave = astype_str(g)
                                    /\ L[i].valor = ValorDoGrupo(g)
            /\ \A i \in 1..(Len(L) - 1) : L[i].valor >= L[i + 1].valor
            /\ \A g \in Grupos :
                  (\A i \in 1..Len(L) : L[i].chave # astype_str(g)) =>
                      \A i \in 1..Len(L) : ValorDoGrupo(g) <= L[i].valor

\* C7: for the textual criteria whose column exists, a row is kept if and
\* only if the upper-cased string form of its value contains the upper-cased
\* criterion as a literal substring.
C7_SubstringLiteral ==
    (Filtrou /\ ~chamada.args.ano_emissao.some /\ ~chamada.args.mes_missao.some) =>
        chamada.filtro =
              Selecionar(PORTES_DF.rows,
                         [r \in 1..Len(PORTES_DF.rows) |->
                             SatisfazTexto(PORTES_DF.cols, PORTES_DF.rows[r],
                                           chamada.args)])

\* C8: a supplied criterion (textual, year or month) whose column the table
\* lacks changes nothing: the call returns what the call without that
\* criterion returns, and so raises nothing that call does not raise.
C8_CriterioSemColuna ==
    (Chamou /\ carga.exc = "") =>
        /\ \A k \in 1..Len(CriteriosTexto) :
              (/\ chamada.args[CriteriosTexto[k][1]].some
               /\ ~TemColuna(PORTES_DF.cols, CriteriosTexto[k][2])) =>
                  consultar_portes(PORTES_DF, disco,
                      [chamada.args EXCEPT ![CriteriosTexto[k][1]] = None]).res
                  = chamada.res
        /\ \A par \in {<<"ano_emissao", Col_ANO_EMISSAO>>,
                       <<"mes_missao", Col_MES_MISSAO>>} :
              (/\ chamada.args[par[1]].some
               /\ ~TemColuna(PORTES_DF.cols, par[2])) =>
                  consultar_portes(PORTES_DF, disco,
                      [chamada.args EXCEPT ![par[1]] = None]).res
                  = chamada.res

\* A ranking returned by a query with a textual and a month criterion on
\* columns the table lacks, beside a criterion that dropped rows.
C8_Witness ==
    /\ Chamou /\ chamada.res.kind = "ranking" /\ Len(chamada.res.linhas) >= 1
    /\ chamada.args.municipio.some /\ ~TemColuna(PORTES_DF.cols, Col_MUNICIPIO)
    /\ chamada.args.mes_missao.some /\ ~TemColuna(PORTES_DF.cols, Col_MES_MISSAO)
    /\ Len(chamada.filtro) < Len(PORTES_DF.rows)

\* C9 as claimed: in a ranking with a limit top_n that is null, zero or
\* negative there is one line for every group of the filtered rows.
C9_Original ==
    (Chamou /\ chamada.res.kind = "ranking"
        /\ (~chamada.args.top_n.some \/ chamada.args.top_n.n <= 0)) =>
        Len(chamada.res.linhas) = Cardinality(Grupos)

\* C9 amended: a ranking has one line for every group when top_n is null,
\* no line when top_n is zero, and lacks its last -top_n groups (every
\* group, when there are no more) when top_n is negative.
C9_LimiteNaoPositivo ==
    (Chamou /\ chamada.res.kind = "ranking"
        /\ (~chamada.args.top_n.some \/ chamada.args.top_n.n <= 0)) =>
        Len(chamada.res.linhas) =
            IF ~chamada.args.top_n.some THEN Cardinality(Grupos)
            ELSE IF chamada.args.top_n.n = 0 THEN 0
            ELSE Max(Cardinality(Grupos) + chamada.args.top_n.n, 0)

\* A ranking of several groups that lost its last group to top_n = -1.
C9_Witness ==
    /\ Chamou /\ chamada.res.kind = "ranking"
    /\ chamada.args.top_n = Inteiro(-1)
    /\ Cardinality(Grupos) >= 3
    /\ Len(chamada.res.linhas) = Cardinality(Grupos) - 1

\* C10: in a ranking that is not truncated, the aggregated values of the
\* lines sum to the grand total of the first sentence, also when rows have
\* a missing value in the grouping column.
C10_SomaDasLinhas ==
    (Chamou /\ chamada.res.kind = "ranking"
        /\ (~chamada.args.top_n.some
            \/ chamada.args.top_n.n >= Len(chamada.filtro))) =>
        Soma([i \in 1..Len(chamada.res.linhas) |-> chamada.res.linhas[i].valor])
        = chamada.res.total_portes

====
